---- MODULE Spec2Model ----
(***************************************************************************)
(* A model of the naming phase of the template pipeline                    *)
(* (packages/compiler/src/template/pipeline/src/phases/naming.ts).         *)
(*                                                                         *)
(* Strings are sequences of one-character strings, so that concatenation,  *)
(* String.replace, String.indexOf, sanitizing and number formatting are    *)
(* computed as the code computes them.  A nullable value is a sequence of  *)
(* length 0 (null) or 1 (the value).  The recursion of addNamesToView is   *)
(* an explicit stack of frames; the exception of a `throw` is the terminal *)
(* control state "error".                                                  *)
(***************************************************************************)
EXTENDS Integers, Sequences, FiniteSets, TLC

VARIABLES
  job,        \* the CompilationJob's fixed fields: root, componentName, fnSuffix, compatibility, which units are views
  fnName,     \* unit xref -> nullable function name (CompilationUnit.fnName)
  ops,        \* unit xref -> the unit's instruction list (unit.ops())
  variables,  \* SemanticVariable objects, by identity: kind, identifier, name
  state,      \* the {index: number} object shared by every call of one run
  stack,      \* the active calls of addNamesToView, outermost first
  pc,         \* "idle", "running", "done", or "error" once an exception was thrown
  err,        \* the message of the exception thrown, "" if none
  runs,       \* how many times phaseNaming was called
  input,      \* the job as it was handed to the first run (fnName, ops, variables)
  allocs,     \* the names getVariableName has computed, in allocation order
  visits      \* unit xref -> how many times each loop over the unit finished in this run

vars == <<job, fnName, ops, variables, state, stack, pc, err, runs, input, allocs, visits>>

------------------------------------------------------------------------------
(* Bounds of the model. *)

MaxRuns == 2
MaxVarOps == 3
MaxListenerOps == 2
MaxTreeOps == 2
MaxPropOps == 2
MaxVisits == 2

------------------------------------------------------------------------------
(* Nullable values and strings. *)

NULL == <<>>
Some(x) == <<x>>
Val(o) == o[1]

Lower == <<"a","b","c","d","e","f","g","h","i","j","k","l","m",
           "n","o","p","q","r","s","t","u","v","w","x","y","z">>
Upper == <<"A","B","C","D","E","F","G","H","I","J","K","L","M",
           "N","O","P","Q","R","S","T","U","V","W","X","Y","Z">>
DigitChars == <<"0","1","2","3","4","5","6","7","8","9">>

Range(s) == {s[i] : i \in 1..Len(s)}

\* Number formatting of a template literal `${n}` for a non-negative integer.
RECURSIVE IntToStr(_)
IntToStr(n) ==
  IF n < 10 THEN <<DigitChars[n + 1]>>
  ELSE IntToStr(n \div 10) \o <<DigitChars[(n % 10) + 1]>>

\* String.prototype.indexOf(pat): the 0-based index of the first occurrence, -1 if none.
IndexOf(s, pat) ==
  LET hits == {i \in 1..(Len(s) - Len(pat) + 1) : SubSeq(s, i, i + Len(pat) - 1) = pat}
  IN IF hits = {} THEN -1 ELSE (CHOOSE i \in hits : \A j \in hits : i <= j) - 1

\* String.prototype.replace(pat, by) with a string pattern: the first occurrence only.
ReplaceFirst(s, pat, by) ==
  LET k == IndexOf(s, pat)
  IN IF k = -1 THEN s
     ELSE SubSeq(s, 1, k) \o by \o SubSeq(s, k + Len(pat) + 1, Len(s))

StartsWith(s, pat) == Len(s) >= Len(pat) /\ SubSeq(s, 1, Len(pat)) = pat

IsWordChar(c) == c \in Range(Lower) \cup Range(Upper) \cup Range(DigitChars) \cup {"_"}

\* sanitizeIdentifier (parse_util): every character that is not a word character becomes '_'.
sanitizeIdentifier(name) ==
  [i \in 1..Len(name) |-> IF IsWordChar(name[i]) THEN name[i] ELSE "_"]

ToLowerChar(c) ==
  IF c \in Range(Upper) THEN Lower[CHOOSE i \in 1..Len(Upper) : Upper[i] = c] ELSE c

\* hyphenate (style_parser): a '-' goes between a lower-case letter and the upper-case
\* letter after it, then the whole name is lower-cased.
RECURSIVE hyphenate(_)
hyphenate(value) ==
  IF Len(value) = 0 THEN <<>>
  ELSE IF Len(value) >= 2 /\ value[1] \in Range(Lower) /\ value[2] \in Range(Upper)
       THEN <<value[1], "-", ToLowerChar(value[2])>> \o hyphenate(SubSeq(value, 3, Len(value)))
       ELSE <<ToLowerChar(value[1])>> \o hyphenate(Tail(value))

------------------------------------------------------------------------------
(* String literals of the source. *)

S_us == <<"_">>
S_at == <<"@">>
S_dot == <<".">>
S_hyphen == <<"-">>
S_dashdash == <<"-","-">>
S_animation == <<"a","n","i","m","a","t","i","o","n">>
S_HostBindingHandler == <<"H","o","s","t","B","i","n","d","i","n","g","H","a","n","d","l","e","r">>
S_listener == <<"l","i","s","t","e","n","e","r">>
S_Empty == <<"E","m","p","t","y">>
S_ctx_r == <<"c","t","x","_","r">>
S_r == <<"_","r">>
S_important == <<"!","i","m","p","o","r","t","a","n","t">>

ErrListenerSlot == "Expected a slot to be assigned"
ErrViewSlot == "Expected slot to be assigned"
ErrNotView == "AssertionError: must be compiling a component"
ErrNotNamed == "Variable not yet named"
ErrTypeError == "TypeError"

------------------------------------------------------------------------------
(* The pure functions of naming.ts. *)

\* stripImportant cutting at the last "!important" (lastIndexOf) instead of the first.
stripImportant_last(name) ==
  LET hits == {i \in 1..(Len(name) - Len(S_important) + 1) :
                 SubSeq(name, i, i + Len(S_important) - 1) = S_important}
  IN IF hits = {} THEN name
     ELSE SubSeq(name, 1, (CHOOSE i \in hits : \A j \in hits : i >= j) - 1)

\* stripImportant: the name cut at the first "!important".
stripImportant(name) ==
  LET importantIndex == IndexOf(name, S_important)
  IN IF importantIndex > -1 THEN SubSeq(name, 1, importantIndex) ELSE name

\* normalizeStylePropName: hyphenated unless a CSS variable.
normalizeStylePropName(name) ==
  IF StartsWith(name, S_dashdash) THEN name ELSE hyphenate(name)

\* NewVariableName with the counter left alone after a Context variable.
NewVariableName_noPostIncrement(variable, index) ==
  CASE variable.kind = "Context" ->
         [name |-> S_ctx_r \o IntToStr(index), index |-> index]
    [] variable.kind = "Identifier" ->
         [name |-> variable.identifier \o S_r \o IntToStr(index + 1), index |-> index + 1]
    [] OTHER ->
         [name |-> S_r \o IntToStr(index + 1), index |-> index + 1]

\* NewVariableName with every kind post-incrementing, as the Context case does.
NewVariableName_postIncrementAll(variable, index) ==
  CASE variable.kind = "Context" ->
         [name |-> S_ctx_r \o IntToStr(index), index |-> index + 1]
    [] variable.kind = "Identifier" ->
         [name |-> variable.identifier \o S_r \o IntToStr(index), index |-> index + 1]
    [] OTHER ->
         [name |-> S_r \o IntToStr(index), index |-> index + 1]

\* The name a variable with an unset name gets at counter value `index`, and the
\* counter afterwards: Context post-increments, the other kinds pre-increment.
NewVariableName(variable, index) ==
  CASE variable.kind = "Context" ->
         [name |-> S_ctx_r \o IntToStr(index), index |-> index + 1]
    [] variable.kind = "Identifier" ->
         [name |-> variable.identifier \o S_r \o IntToStr(index + 1), index |-> index + 1]
    [] OTHER ->
         [name |-> S_r \o IntToStr(index + 1), index |-> index + 1]

\* getVariableName returning a computed name without storing it in the variable.
getVariableName_unsaved(variable, index) ==
  IF variable.name = NULL
  THEN [name |-> S_r \o IntToStr(index + 1), variable |-> variable,
        index |-> index + 1, fresh |-> TRUE]
  ELSE [name |-> Val(variable.name), variable |-> variable, index |-> index, fresh |-> FALSE]

\* getVariableName(variable, state): the returned name, the variable and the counter
\* as the call leaves them, and whether a name was computed.
getVariableName(variable, index) ==
  IF variable.name = NULL
  THEN LET n == NewVariableName(variable, index)
       IN [name |-> n.name, variable |-> [variable EXCEPT !.name = Some(n.name)],
           index |-> n.index, fresh |-> TRUE]
  ELSE [name |-> Val(variable.name), variable |-> variable, index |-> index, fresh |-> FALSE]

\* UnitFnName without the null test: every visit sets the name.
UnitFnName_overwrite(old, baseName, fnSuffix) ==
  Some(sanitizeIdentifier(baseName \o S_us \o fnSuffix))

\* The function name a unit gets on entry to addNamesToView (lines 28-30).
UnitFnName(old, baseName, fnSuffix) ==
  IF old = NULL THEN Some(sanitizeIdentifier(baseName \o S_us \o fnSuffix)) ELSE old

\* The event name of a listener being named (lines 51-55).
ListenerEventName(op) ==
  IF op.isAnimationListener THEN S_at \o op.name \o S_dot \o op.animationPhase ELSE op.name

AnimationTag(op) == IF op.isAnimationListener THEN S_animation ELSE <<>>

\* ListenerHandlerName with a host listener named from the unit's function name.
ListenerHandlerName_fnNameForHost(op, baseName, unitFnName) ==
  sanitizeIdentifier(
    IF op.hostListener
    THEN unitFnName \o S_us \o AnimationTag(op) \o ListenerEventName(op) \o S_us \o S_HostBindingHandler
    ELSE unitFnName \o S_us \o ReplaceFirst(Val(op.tag), S_hyphen, S_us) \o S_us \o AnimationTag(op)
           \o ListenerEventName(op) \o S_us \o IntToStr(Val(op.slot)) \o S_us \o S_listener)

\* The handler name of a listener being named (lines 56-62); a view listener has a tag.
ListenerHandlerName(op, baseName, unitFnName) ==
  sanitizeIdentifier(
    IF op.hostListener
    THEN baseName \o S_us \o AnimationTag(op) \o ListenerEventName(op) \o S_us \o S_HostBindingHandler
    ELSE unitFnName \o S_us \o ReplaceFirst(Val(op.tag), S_hyphen, S_us) \o S_us \o AnimationTag(op)
           \o ListenerEventName(op) \o S_us \o IntToStr(Val(op.slot)) \o S_us \o S_listener)

\* RepeaterEmptyBase with the primary view's offset.
RepeaterEmptyBase_plusOne(baseName, op) ==
  baseName \o S_us \o (op.functionNameSuffix \o S_Empty) \o S_us \o IntToStr(Val(op.slot) + 1)

\* The base names handed to the child units (lines 78, 84, 94-95).
RepeaterEmptyBase(baseName, op) ==
  baseName \o S_us \o (op.functionNameSuffix \o S_Empty) \o S_us \o IntToStr(Val(op.slot) + 2)

RepeaterPrimaryBase(baseName, op) ==
  baseName \o S_us \o op.functionNameSuffix \o S_us \o IntToStr(Val(op.slot) + 1)

TemplateBase(baseName, op) ==
  LET suffix == IF Len(op.functionNameSuffix) = 0 THEN <<>> ELSE S_us \o op.functionNameSuffix
  IN baseName \o suffix \o S_us \o IntToStr(Val(op.slot))

\* BackfillReads without the skip of reads that already carry a name: every read is
\* looked up in varNames.
RECURSIVE BackfillReads_lookupNamed(_, _)
BackfillReads_lookupNamed(reads, varNames) ==
  IF reads = <<>> THEN [reads |-> <<>>, failed |-> FALSE]
  ELSE LET expr == Head(reads)
       IN IF varNames[expr.xref] = NULL
          THEN [reads |-> reads, failed |-> TRUE]
          ELSE LET rest == BackfillReads_lookupNamed(Tail(reads), varNames)
               IN [reads |-> <<[expr EXCEPT !.name = varNames[expr.xref]]>> \o rest.reads,
                   failed |-> rest.failed]

\* The backfill of one instruction's expressions (lines 114-122), in visiting order:
\* the reads as left, and whether an unnamed read was absent from varNames (the
\* visit stops there, the reads visited before it keep their new names).
RECURSIVE BackfillReads(_, _)
BackfillReads(reads, varNames) ==
  IF reads = <<>> THEN [reads |-> <<>>, failed |-> FALSE]
  ELSE LET expr == Head(reads)
       IN IF expr.name # NULL
          THEN LET rest == BackfillReads(Tail(reads), varNames)
               IN [reads |-> <<expr>> \o rest.reads, failed |-> rest.failed]
          ELSE IF varNames[expr.xref] = NULL
          THEN [reads |-> reads, failed |-> TRUE]
          ELSE LET rest == BackfillReads(Tail(reads), varNames)
               IN [reads |-> <<[expr EXCEPT !.name = varNames[expr.xref]]>> \o rest.reads,
                   failed |-> rest.failed]

------------------------------------------------------------------------------
(* The instructions and jobs the runs start from. *)

S_Comp == <<"C","o","m","p">>
S_Template == <<"T","e","m","p","l","a","t","e">>
S_HostBindings == <<"H","o","s","t","B","i","n","d","i","n","g","s">>
S_Pre == <<"P","r","e">>
S_pre == <<"p","r","e">>
S_h == <<"h">>
S_click == <<"c","l","i","c","k">>
S_open == <<"o","p","e","n">>
S_done == <<"d","o","n","e">>
S_title == <<"t","i","t","l","e">>
S_state == <<"s","t","a","t","e">>
S_div == <<"d","i","v">>
S_span == <<"s","p","a","n">>
S_For == <<"F","o","r">>
S_my_el == <<"m","y","-","e","l">>
S_a_b_c == <<"a","-","b","-","c">>
S_ctx == <<"c","t","x">>
S_item == <<"i","t","e","m">>
S_fontSize == <<"f","o","n","t","S","i","z","e">>
S_my_var == <<"-","-","m","y","-","v","a","r">>
S_myVar == <<"-","-","m","y","V","a","r">>
S_colorImportant == <<"c","o","l","o","r">> \o S_important
S_bgColorImportantX == <<"b","g","C","o","l","o","r">> \o S_important \o <<"X">> \o S_important
S_activeImportant == <<"a","c","t","i","v","e">> \o S_important
S_isOn == <<"i","s","O","n">>

\* The xrefs of Variable instructions, and one xref no instruction declares.
VarXrefs == {11, 12, 13, 14, 15, 99}

\* An instruction: the fields the pass reads or writes, for every kind alike.  `slot`
\* is targetSlot.slot of a Listener and slot.slot of a Template or RepeaterCreate;
\* `reads` are the ReadVariableExpr of the instruction's expressions, in visiting order.
BaseOp ==
  [kind |-> "Statement", name |-> <<>>, isAnimationTrigger |-> FALSE,
   hostListener |-> FALSE, isAnimationListener |-> FALSE, animationPhase |-> <<>>,
   tag |-> NULL, slot |-> NULL, handlerFnName |-> NULL, xref |-> 0, emptyView |-> NULL,
   functionNameSuffix |-> <<>>, variable |-> 0, reads |-> <<>>]

Rd(x) == [xref |-> x, name |-> NULL]
RdNamed(x, n) == [xref |-> x, name |-> Some(n)]

StatementOp(reads) == [BaseOp EXCEPT !.reads = reads]
VariableOp(x, v) == [BaseOp EXCEPT !.kind = "Variable", !.xref = x, !.variable = v]
TemplateOp(child, slot, suffix) ==
  [BaseOp EXCEPT !.kind = "Template", !.xref = child, !.slot = slot, !.functionNameSuffix = suffix]
RepeaterCreateOp(child, empty, slot, suffix) ==
  [BaseOp EXCEPT !.kind = "RepeaterCreate", !.xref = child, !.emptyView = empty, !.slot = slot,
                 !.functionNameSuffix = suffix]
PropertyOp(kind, name, trigger) ==
  [BaseOp EXCEPT !.kind = kind, !.name = name, !.isAnimationTrigger = trigger]
StylePropOp(name) == [BaseOp EXCEPT !.kind = "StyleProp", !.name = name]
ClassPropOp(name) == [BaseOp EXCEPT !.kind = "ClassProp", !.name = name]
ListenerOp(host, tag, slot, name, anim, handler) ==
  [BaseOp EXCEPT !.kind = "Listener", !.hostListener = host, !.tag = tag, !.slot = slot,
                 !.name = name, !.isAnimationListener = anim,
                 !.animationPhase = IF anim THEN S_done ELSE <<>>, !.handlerFnName = handler]

Context == [kind |-> "Context", identifier |-> <<>>, name |-> NULL]
Identifier(id) == [kind |-> "Identifier", identifier |-> id, name |-> NULL]
SavedView == [kind |-> "SavedView", identifier |-> <<>>, name |-> NULL]

SeqsUpTo(S, n) == UNION {[1..k -> S] : k \in 1..n}
NoRepeat(s) == \A i, j \in 1..Len(s) : i # j => s[i] # s[j]

ViewListener == ListenerOp(FALSE, Some(S_my_el), Some(3), S_click, FALSE, NULL)

MkJob(rootIsView, compatibility, names, instrs, vs) ==
  [root |-> 1, componentName |-> S_Comp,
   fnSuffix |-> IF rootIsView THEN S_Template ELSE S_HostBindings,
   compatibility |-> compatibility,
   isView |-> [u \in DOMAIN instrs |-> u # 1 \/ rootIsView],
   fnName |-> names, ops |-> instrs, variables |-> vs]

\* Jobs about variables and their reads: two variables of varying kinds declared in the
\* root, read before or after their declaration; child views that declare their own
\* variable or one more Variable instruction of the root's first variable; a read of a
\* variable declared in another unit; a read that already carries a name.
VariableAlphabet ==
  {VariableOp(11, 1), VariableOp(12, 2),
   StatementOp(<<Rd(11), Rd(12)>>), StatementOp(<<Rd(11), Rd(13)>>),
   TemplateOp(2, Some(0), S_div), RepeaterCreateOp(3, Some(4), Some(5), S_For)}

VariableJobs ==
  {MkJob(TRUE, FALSE, [u \in 1..4 |-> NULL],
         <<rootOps,
           <<StatementOp(<<Rd(13)>>), VariableOp(13, IF share THEN 1 ELSE 3)>>,
           <<StatementOp(<<Rd(14), RdNamed(99, S_pre)>>), VariableOp(14, 4)>>,
           <<VariableOp(15, 5), StatementOp(<<Rd(15)>>)>> >>,
         <<k1, k2, Context, SavedView, Context>>) :
     rootOps \in {s \in SeqsUpTo(VariableAlphabet, MaxVarOps) : NoRepeat(s)},
     k1 \in {Context, Identifier(S_ctx), Identifier(S_item), SavedView},
     k2 \in {Context, Identifier(S_item)},
     share \in BOOLEAN}

\* Jobs about listeners, on a component's root view or on a host binding unit.
ListenerAlphabet ==
  {ViewListener,
   ListenerOp(FALSE, Some(S_a_b_c), Some(3), S_click, FALSE, NULL),
   ListenerOp(FALSE, Some(S_div), NULL, S_click, FALSE, NULL),
   ListenerOp(TRUE, NULL, NULL, S_click, FALSE, NULL),
   ListenerOp(TRUE, NULL, NULL, S_open, TRUE, NULL),
   ListenerOp(FALSE, Some(S_div), Some(0), S_open, TRUE, NULL),
   ListenerOp(FALSE, Some(S_div), NULL, S_open, TRUE, Some(S_h)),
   ListenerOp(FALSE, NULL, Some(3), S_open, TRUE, NULL),
   TemplateOp(2, Some(1), S_div)}

ListenerJobs ==
  {MkJob(rootIsView, FALSE, [u \in 1..2 |-> NULL], <<rootOps, <<ViewListener>> >>, <<>>) :
     rootOps \in SeqsUpTo(ListenerAlphabet, MaxListenerOps),
     rootIsView \in BOOLEAN}

\* Jobs about the unit tree: templates and repeaters at several slots, with and without
\* a slot, a suffix or an empty branch; a nested template; a child named beforehand; a
\* child referenced twice.
TreeAlphabet ==
  {TemplateOp(2, Some(0), <<>>), TemplateOp(2, Some(5), S_div), TemplateOp(2, NULL, S_div),
   RepeaterCreateOp(3, Some(4), Some(5), S_For), RepeaterCreateOp(3, NULL, Some(9), S_For),
   RepeaterCreateOp(3, Some(4), NULL, S_For)}

TreeJobs ==
  {MkJob(rootIsView, FALSE, [u \in 1..5 |-> IF u = 2 /\ named THEN Some(S_Pre) ELSE NULL],
         <<rootOps,
           <<TemplateOp(5, Some(1), S_span), VariableOp(13, 1)>>,
           <<ViewListener>>,
           <<VariableOp(15, 2)>>,
           <<>> >>,
         <<Context, Identifier(S_item)>>) :
     rootOps \in SeqsUpTo(TreeAlphabet, MaxTreeOps),
     rootIsView \in BOOLEAN,
     named \in BOOLEAN}

\* Jobs about property, style and class names, with and without compatibility mode.
PropAlphabet ==
  {PropertyOp("Property", S_open, TRUE), PropertyOp("Property", S_title, FALSE),
   PropertyOp("HostProperty", S_state, TRUE),
   StylePropOp(S_fontSize), StylePropOp(S_my_var), StylePropOp(S_myVar),
   StylePropOp(S_colorImportant), StylePropOp(S_bgColorImportantX),
   ClassPropOp(S_activeImportant), ClassPropOp(S_isOn)}

PropJobs ==
  {MkJob(TRUE, compatibility, [u \in 1..1 |-> NULL], <<rootOps>>, <<>>) :
     rootOps \in SeqsUpTo(PropAlphabet, MaxPropOps),
     compatibility \in BOOLEAN}

Jobs == VariableJobs \cup ListenerJobs \cup TreeJobs \cup PropJobs

------------------------------------------------------------------------------
(* The state machine. *)

Init ==
  \E j \in Jobs :
    /\ job = [root |-> j.root, componentName |-> j.componentName, fnSuffix |-> j.fnSuffix,
              compatibility |-> j.compatibility, isView |-> j.isView]
    /\ fnName = j.fnName
    /\ ops = j.ops
    /\ variables = j.variables
    /\ input = [fnName |-> j.fnName, ops |-> j.ops, variables |-> j.variables]
    /\ state = [index |-> 0]
    /\ stack = <<>>
    /\ pc = "idle"
    /\ err = ""
    /\ runs = 0
    /\ allocs = <<>>
    /\ visits = [u \in DOMAIN j.ops |-> [scan |-> 0, backfill |-> 0]]

\* A call of addNamesToView at its first instruction, with an empty varNames map.
Frame(unit, baseName) ==
  [unit |-> unit, baseName |-> baseName, i |-> 1, phase |-> "scan", stage |-> "op",
   varNames |-> [x \in VarXrefs |-> NULL]]

Top == stack[Len(stack)]
CurOp == ops[Top.unit][Top.i]
SetTop(f) == [stack EXCEPT ![Len(stack)] = f]

\* The first loop of the running call stands at an instruction.
Scanning ==
  /\ pc = "running"
  /\ Top.phase = "scan"
  /\ Top.i <= Len(ops[Top.unit])

Advance == stack' = SetTop([Top EXCEPT !.i = @ + 1])

Throw(msg) == pc' = "error" /\ err' = msg

\* One more completed loop over a unit's instructions, counted up to MaxVisits.
Count(n) == IF n < MaxVisits THEN n + 1 ELSE n

\* addNamesToView(unit, baseName, state, compatibility) is called with `stk` the
\* calls that stay active: lines 28-34.
Call(stk, unit, baseName) ==
  /\ fnName' = [fnName EXCEPT ![unit] = UnitFnName(@, baseName, job.fnSuffix)]
  /\ stack' = Append(stk, Frame(unit, baseName))

\* phaseNaming(cpl): lines 20-24.
PhaseNaming ==
  /\ pc \in {"idle", "done"}
  /\ runs < MaxRuns
  /\ runs' = runs + 1
  /\ state' = [index |-> 0]
  /\ pc' = "running"
  /\ Call(<<>>, job.root, job.componentName)
  /\ visits' = [u \in DOMAIN ops |-> [scan |-> 0, backfill |-> 0]]
  /\ UNCHANGED <<job, ops, variables, err, input, allocs>>

\* case Property, HostProperty: lines 38-43.
PropertyNamed(op) == IF op.isAnimationTrigger THEN [op EXCEPT !.name = S_at \o @] ELSE op

ScanProperty ==
  /\ Scanning
  /\ CurOp.kind \in {"Property", "HostProperty"}
  /\ ops' = [ops EXCEPT ![Top.unit][Top.i] = PropertyNamed(@)]
  /\ Advance
  /\ UNCHANGED <<job, fnName, variables, state, pc, err, runs, input, allocs, visits>>

\* case Listener: lines 44-63.  The event name of an animation listener is rewritten
\* (line 53) before a missing tag is dereferenced (line 59).
\* ListenerNamed with the handler name assigned on the view-listener path only.
ListenerNamed_viewOnly(op, baseName, unitFnName) ==
  IF op.hostListener THEN [op EXCEPT !.name = ListenerEventName(op)]
  ELSE [op EXCEPT !.name = ListenerEventName(op),
                  !.handlerFnName = Some(ListenerHandlerName(op, baseName, unitFnName))]

ListenerNamed(op, baseName, unitFnName) ==
  [op EXCEPT !.name = ListenerEventName(op),
             !.handlerFnName = Some(ListenerHandlerName(op, baseName, unitFnName))]

\* ListenerSlotMissing without the host-listener exemption.
ListenerSlotMissing_anyNullSlot(op) == op.slot = NULL

ListenerSlotMissing(op) == ~op.hostListener /\ op.slot = NULL

\* ScanListener with the slot check (lines 49-51) standing before the test of the
\* handler name (lines 45-47).
ScanListener_slotCheckFirst ==
  /\ Scanning
  /\ CurOp.kind = "Listener"
  /\ IF ListenerSlotMissing(CurOp)
       THEN Throw(ErrListenerSlot) /\ UNCHANGED <<ops, stack>>
     ELSE IF CurOp.handlerFnName # NULL
       THEN Advance /\ UNCHANGED <<ops, pc, err>>
     ELSE IF ~CurOp.hostListener /\ CurOp.tag = NULL
       THEN /\ Throw(ErrTypeError)
            /\ ops' = [ops EXCEPT ![Top.unit][Top.i].name = ListenerEventName(CurOp)]
            /\ UNCHANGED stack
     ELSE /\ ops' = [ops EXCEPT ![Top.unit][Top.i] =
                       ListenerNamed(@, Top.baseName, Val(fnName[Top.unit]))]
          /\ Advance
          /\ UNCHANGED <<pc, err>>
  /\ UNCHANGED <<job, fnName, variables, state, runs, input, allocs, visits>>

ScanListener ==
  /\ Scanning
  /\ CurOp.kind = "Listener"
  /\ IF CurOp.handlerFnName # NULL
       THEN Advance /\ UNCHANGED <<ops, pc, err>>
     ELSE IF ListenerSlotMissing(CurOp)
       THEN Throw(ErrListenerSlot) /\ UNCHANGED <<ops, stack>>
     ELSE IF ~CurOp.hostListener /\ CurOp.tag = NULL
       THEN /\ Throw(ErrTypeError)
            /\ ops' = [ops EXCEPT ![Top.unit][Top.i].name = ListenerEventName(CurOp)]
            /\ UNCHANGED stack
     ELSE /\ ops' = [ops EXCEPT ![Top.unit][Top.i] =
                       ListenerNamed(@, Top.baseName, Val(fnName[Top.unit]))]
          /\ Advance
          /\ UNCHANGED <<pc, err>>
  /\ UNCHANGED <<job, fnName, variables, state, runs, input, allocs, visits>>

\* case Variable: lines 64-66.
ScanVariable ==
  /\ Scanning
  /\ CurOp.kind = "Variable"
  /\ LET r == getVariableName(variables[CurOp.variable], state.index)
     IN /\ variables' = [variables EXCEPT ![CurOp.variable] = r.variable]
        /\ state' = [index |-> r.index]
        /\ stack' = SetTop([Top EXCEPT !.varNames[CurOp.xref] = Some(r.name), !.i = @ + 1])
        /\ allocs' = IF r.fresh
                     THEN Append(allocs, [variable |-> CurOp.variable, name |-> r.name,
                                          kind |-> r.variable.kind, index |-> state.index,
                                          unit |-> Top.unit, run |-> runs])
                     ELSE allocs
  /\ UNCHANGED <<job, fnName, ops, pc, err, runs, input, visits>>

\* ScanRepeaterCreate without the check of the slot (lines 72-74): a null slot then
\* counts as 0 in the arithmetic of lines 77 and 83.
ScanRepeaterCreate_noSlotCheck ==
  /\ Scanning
  /\ CurOp.kind = "RepeaterCreate"
  /\ Top.stage \in {"op", "afterEmpty"}
  /\ LET op == IF CurOp.slot = NULL THEN [CurOp EXCEPT !.slot = Some(0)] ELSE CurOp
     IN IF Top.stage = "afterEmpty"
          THEN /\ Call(SetTop([Top EXCEPT !.stage = "primary"]), op.xref,
                       RepeaterPrimaryBase(Top.baseName, op))
               /\ UNCHANGED <<pc, err>>
        ELSE IF ~job.isView[Top.unit]
          THEN Throw(ErrNotView) /\ UNCHANGED <<fnName, stack>>
        ELSE IF op.emptyView # NULL
          THEN /\ Call(SetTop([Top EXCEPT !.stage = "empty"]), Val(op.emptyView),
                       RepeaterEmptyBase(Top.baseName, op))
               /\ UNCHANGED <<pc, err>>
        ELSE /\ Call(SetTop([Top EXCEPT !.stage = "primary"]), op.xref,
                     RepeaterPrimaryBase(Top.baseName, op))
             /\ UNCHANGED <<pc, err>>
  /\ UNCHANGED <<job, ops, variables, state, runs, input, allocs, visits>>

\* ScanRepeaterCreate with the two calls in the other order: the primary view first,
\* then the empty view.
ScanRepeaterCreate_primaryFirst ==
  /\ Scanning
  /\ CurOp.kind = "RepeaterCreate"
  /\ Top.stage \in {"op", "afterEmpty"}
  /\ IF Top.stage = "afterEmpty"
       THEN /\ Call(SetTop([Top EXCEPT !.stage = "primary"]), Val(CurOp.emptyView),
                    RepeaterEmptyBase(Top.baseName, CurOp))
            /\ UNCHANGED <<pc, err>>
     ELSE IF ~job.isView[Top.unit]
       THEN Throw(ErrNotView) /\ UNCHANGED <<fnName, stack>>
     ELSE IF CurOp.slot = NULL
       THEN Throw(ErrViewSlot) /\ UNCHANGED <<fnName, stack>>
     ELSE /\ Call(SetTop([Top EXCEPT !.stage = IF CurOp.emptyView # NULL THEN "empty"
                                                ELSE "primary"]),
                  CurOp.xref, RepeaterPrimaryBase(Top.baseName, CurOp))
          /\ UNCHANGED <<pc, err>>
  /\ UNCHANGED <<job, ops, variables, state, runs, input, allocs, visits>>

\* case RepeaterCreate: lines 67-85.  The call for the empty view, if any, returns to
\* stage "afterEmpty", from which the primary view is called.
ScanRepeaterCreate ==
  /\ Scanning
  /\ CurOp.kind = "RepeaterCreate"
  /\ Top.stage \in {"op", "afterEmpty"}
  /\ IF Top.stage = "afterEmpty"
       THEN /\ Call(SetTop([Top EXCEPT !.stage = "primary"]), CurOp.xref,
                    RepeaterPrimaryBase(Top.baseName, CurOp))
            /\ UNCHANGED <<pc, err>>
     ELSE IF ~job.isView[Top.unit]
       THEN Throw(ErrNotView) /\ UNCHANGED <<fnName, stack>>
     ELSE IF CurOp.slot = NULL
       THEN Throw(ErrViewSlot) /\ UNCHANGED <<fnName, stack>>
     ELSE IF CurOp.emptyView # NULL
       THEN /\ Call(SetTop([Top EXCEPT !.stage = "empty"]), Val(CurOp.emptyView),
                    RepeaterEmptyBase(Top.baseName, CurOp))
            /\ UNCHANGED <<pc, err>>
     ELSE /\ Call(SetTop([Top EXCEPT !.stage = "primary"]), CurOp.xref,
                  RepeaterPrimaryBase(Top.baseName, CurOp))
          /\ UNCHANGED <<pc, err>>
  /\ UNCHANGED <<job, ops, variables, state, runs, input, allocs, visits>>

\* ScanTemplate handing the child view a counter of its own ({index: 0}) instead of
\* the shared state object.
ScanTemplate_freshCounter ==
  /\ Scanning
  /\ CurOp.kind = "Template"
  /\ Top.stage = "op"
  /\ IF ~job.isView[Top.unit]
       THEN Throw(ErrNotView) /\ UNCHANGED <<fnName, stack, state>>
     ELSE IF CurOp.slot = NULL
       THEN Throw(ErrViewSlot) /\ UNCHANGED <<fnName, stack, state>>
     ELSE /\ Call(SetTop([Top EXCEPT !.stage = "child"]), CurOp.xref,
                  TemplateBase(Top.baseName, CurOp))
          /\ state' = [index |-> 0]
          /\ UNCHANGED <<pc, err>>
  /\ UNCHANGED <<job, ops, variables, runs, input, allocs, visits>>

\* case Template: lines 86-96.
ScanTemplate ==
  /\ Scanning
  /\ CurOp.kind = "Template"
  /\ Top.stage = "op"
  /\ IF ~job.isView[Top.unit]
       THEN Throw(ErrNotView) /\ UNCHANGED <<fnName, stack>>
     ELSE IF CurOp.slot = NULL
       THEN Throw(ErrViewSlot) /\ UNCHANGED <<fnName, stack>>
     ELSE /\ Call(SetTop([Top EXCEPT !.stage = "child"]), CurOp.xref,
                  TemplateBase(Top.baseName, CurOp))
          /\ UNCHANGED <<pc, err>>
  /\ UNCHANGED <<job, ops, variables, state, runs, input, allocs, visits>>

\* case StyleProp: lines 97-102.
StylePropNamed(op, compatibility) ==
  LET n == normalizeStylePropName(op.name)
  IN [op EXCEPT !.name = IF compatibility THEN stripImportant(n) ELSE n]

ScanStyleProp ==
  /\ Scanning
  /\ CurOp.kind = "StyleProp"
  /\ ops' = [ops EXCEPT ![Top.unit][Top.i] = StylePropNamed(@, job.compatibility)]
  /\ Advance
  /\ UNCHANGED <<job, fnName, variables, state, pc, err, runs, input, allocs, visits>>

\* case ClassProp: lines 103-107.
ClassPropNamed(op, compatibility) ==
  IF compatibility THEN [op EXCEPT !.name = stripImportant(op.name)] ELSE op

ScanClassProp ==
  /\ Scanning
  /\ CurOp.kind = "ClassProp"
  /\ ops' = [ops EXCEPT ![Top.unit][Top.i] = ClassPropNamed(@, job.compatibility)]
  /\ Advance
  /\ UNCHANGED <<job, fnName, variables, state, pc, err, runs, input, allocs, visits>>

\* ScanOther resolving the instruction's reads during the first loop, from the names
\* the loop has recorded so far, instead of leaving them to the second loop.
ScanOther_inlineBackfill ==
  /\ Scanning
  /\ CurOp.kind \notin {"Property", "HostProperty", "Listener", "Variable", "RepeaterCreate",
                        "Template", "StyleProp", "ClassProp"}
  /\ LET reads == CurOp.reads
         names == Top.varNames
     IN ops' = [ops EXCEPT ![Top.unit][Top.i].reads =
                  [k \in 1..Len(reads) |->
                     IF reads[k].name = NULL /\ names[reads[k].xref] # NULL
                     THEN [xref |-> reads[k].xref, name |-> names[reads[k].xref]]
                     ELSE reads[k]]]
  /\ Advance
  /\ UNCHANGED <<job, fnName, variables, state, pc, err, runs, input, allocs, visits>>

\* Any other kind: the switch has no case for it.
NamedKinds ==
  {"Property", "HostProperty", "Listener", "Variable", "RepeaterCreate", "Template",
   "StyleProp", "ClassProp"}

ScanOther ==
  /\ Scanning
  /\ CurOp.kind \notin NamedKinds
  /\ Advance
  /\ UNCHANGED <<job, fnName, ops, variables, state, pc, err, runs, input, allocs, visits>>

\* The first loop is over (line 109): the second one starts at the first instruction.
EndScan ==
  /\ pc = "running"
  /\ Top.phase = "scan"
  /\ Top.i > Len(ops[Top.unit])
  /\ stack' = SetTop([Top EXCEPT !.phase = "backfill", !.i = 1])
  /\ visits' = [visits EXCEPT ![Top.unit].scan = Count(@)]
  /\ UNCHANGED <<job, fnName, ops, variables, state, pc, err, runs, input, allocs>>

\* One instruction of the second loop: lines 113-123.
BackfillOp ==
  /\ pc = "running"
  /\ Top.phase = "backfill"
  /\ Top.i <= Len(ops[Top.unit])
  /\ LET r == BackfillReads(CurOp.reads, Top.varNames)
     IN /\ ops' = [ops EXCEPT ![Top.unit][Top.i].reads = r.reads]
        /\ IF r.failed
             THEN Throw(ErrNotNamed) /\ UNCHANGED stack
             ELSE Advance /\ UNCHANGED <<pc, err>>
  /\ UNCHANGED <<job, fnName, variables, state, runs, input, allocs, visits>>

\* Resume with the primary view called only when there is no empty view.
Resume_skipPrimary(frame) == [frame EXCEPT !.stage = "op", !.i = @ + 1]

\* Resume with the caller standing at the same instruction after the call of a
\* Template's view or of a RepeaterCreate's primary view.
Resume_noAdvance(frame) ==
  IF frame.stage = "empty" THEN [frame EXCEPT !.stage = "afterEmpty"]
  ELSE [frame EXCEPT !.stage = "op"]

\* The call returns (line 124): the caller goes on after the call, and when the
\* outermost call returns phaseNaming has completed.
Resume(frame) ==
  IF frame.stage = "empty" THEN [frame EXCEPT !.stage = "afterEmpty"]
  ELSE [frame EXCEPT !.stage = "op", !.i = @ + 1]

Return ==
  /\ pc = "running"
  /\ Top.phase = "backfill"
  /\ Top.i > Len(ops[Top.unit])
  /\ IF Len(stack) = 1
       THEN stack' = <<>> /\ pc' = "done"
       ELSE /\ stack' = [k \in 1..(Len(stack) - 1) |->
                           IF k = Len(stack) - 1 THEN Resume(stack[k]) ELSE stack[k]]
            /\ pc' = pc
  /\ visits' = [visits EXCEPT ![Top.unit].backfill = Count(@)]
  /\ UNCHANGED <<job, fnName, ops, variables, state, err, runs, input, allocs>>

Next ==
  \/ PhaseNaming
  \/ ScanProperty
  \/ ScanListener
  \/ ScanVariable
  \/ ScanRepeaterCreate
  \/ ScanTemplate
  \/ ScanStyleProp
  \/ ScanClassProp
  \/ ScanOther
  \/ EndScan
  \/ BackfillOp
  \/ Return

Spec == Init /\ [][Next]_vars

------------------------------------------------------------------------------
(* Vocabulary of the properties. *)

Units == DOMAIN ops

\* The units an instruction of unit u references.
Children(u) ==
  {ops[u][i].xref : i \in {k \in 1..Len(ops[u]) : ops[u][k].kind \in {"Template", "RepeaterCreate"}}}
  \cup {Val(ops[u][i].emptyView) :
          i \in {k \in 1..Len(ops[u]) : ops[u][k].kind = "RepeaterCreate" /\ ops[u][k].emptyView # NULL}}

RECURSIVE ReachFrom(_, _)
ReachFrom(S, n) ==
  IF n = 0 THEN S ELSE ReachFrom(S \cup UNION {Children(u) : u \in S}, n - 1)

\* The job's unit tree: the root and every unit reached through child references.
UnitTree == ReachFrom({job.root}, Cardinality(Units))

VariableOpsOf(u) == {i \in 1..Len(ops[u]) : ops[u][i].kind = "Variable"}
ListenersOf(u) == {i \in 1..Len(ops[u]) : ops[u][i].kind = "Listener"}

\* The places (unit, instruction, expression) of the variable reads of a set of units.
ReadsOf(U) ==
  UNION {UNION {{<<u, i, k>> : k \in 1..Len(ops[u][i].reads)} : i \in 1..Len(ops[u])} : u \in U}

ReadAt(r) == ops[r[1]][r[2]].reads[r[3]]

\* The Variable instructions (unit, instruction) of the unit tree that declare xref x.
DeclarationsOf(x) ==
  {<<u, i>> \in UNION {{<<u, i>> : i \in VariableOpsOf(u)} : u \in UnitTree} : ops[u][i].xref = x}

\* A name the pass assigned: unset in the job as handed in, set now.
NamedByPass(v) == input.variables[v].name = NULL /\ variables[v].name # NULL

------------------------------------------------------------------------------
(* C1..C5 *)

\* C1: after phaseNaming completes without error, every variable read of every processed
\* unit has a non-null name, equal to the name of the Semantic Variable declared by the
\* Variable instruction with the same xref, wherever the read stands relative to it.
C1_ReadsCarryDeclarationName ==
  pc = "done" =>
    \A r \in ReadsOf(UnitTree) :
      /\ ReadAt(r).name # NULL
      /\ \A d \in DeclarationsOf(ReadAt(r).xref) :
           ReadAt(r).name = variables[ops[d[1]][d[2]].variable].name

\* A completed run in which one read stands before its declaration and another after,
\* both unnamed when the run started.
C1_Witness ==
  /\ pc = "done"
  /\ \E r \in ReadsOf(UnitTree) : \E d \in DeclarationsOf(ReadAt(r).xref) :
       d[1] = r[1] /\ r[2] < d[2] /\ input.ops[r[1]][r[2]].reads[r[3]].name = NULL
  /\ \E r \in ReadsOf(UnitTree) : \E d \in DeclarationsOf(ReadAt(r).xref) :
       d[1] = r[1] /\ r[2] > d[2] /\ input.ops[r[1]][r[2]].reads[r[3]].name = NULL

\* C2: within one job no two distinct Semantic Variables named by the pass carry the
\* same name, whatever their kinds and identifiers.
C2_VariableNamesUnique ==
  \A v, w \in DOMAIN variables :
    (v # w /\ NamedByPass(v) /\ NamedByPass(w)) => variables[v].name # variables[w].name

\* C3: after phaseNaming completes without error, every unit of the job's unit tree has
\* a non-null function name.
C3_UnitsNamed ==
  pc = "done" => \A u \in UnitTree : fnName[u] # NULL

\* A completed run over a root, a template child, its nested child and both branches of
\* a repeater, none of them named beforehand.
C3_Witness ==
  /\ pc = "done"
  /\ Cardinality(UnitTree) = 5
  /\ \A u \in UnitTree : input.fnName[u] = NULL
  /\ \E i \in 1..Len(ops[job.root]) : ops[job.root][i].emptyView # NULL

\* C4: a unit's function name is write-once: no step of any run changes a function name
\* that is set, so a second run leaves the names of the first.
C4_FnNameWriteOnce ==
  [][\A u \in Units : fnName[u] # NULL => fnName'[u] = fnName[u]]_vars

\* In a second run, a unit is being visited with a base name that gives another function
\* name than the one it carries: one named beforehand, and one the first run named from
\* another base.
C4_Witness ==
  /\ runs = 2
  /\ \E k \in 1..Len(stack) :
       /\ input.fnName[stack[k].unit] # NULL
       /\ fnName[stack[k].unit] = input.fnName[stack[k].unit]
       /\ fnName[stack[k].unit] # Some(sanitizeIdentifier(stack[k].baseName \o S_us \o job.fnSuffix))
  /\ \E k \in 1..Len(stack) :
       /\ input.fnName[stack[k].unit] = NULL
       /\ fnName[stack[k].unit] # Some(sanitizeIdentifier(stack[k].baseName \o S_us \o job.fnSuffix))

\* C5: after a successful pass no two distinct units carry the same pass-assigned function
\* name and no two distinct Listener instructions the same pass-assigned handler name.
C5_GeneratedNamesUnique ==
  pc = "done" =>
    /\ \A u, w \in UnitTree :
         (u # w /\ input.fnName[u] = NULL /\ input.fnName[w] = NULL) => fnName[u] # fnName[w]
    /\ \A u, w \in UnitTree : \A i \in ListenersOf(u), j \in ListenersOf(w) :
         (<<u, i>> # <<w, j>> /\ input.ops[u][i].handlerFnName = NULL
            /\ input.ops[w][j].handlerFnName = NULL)
           => ops[u][i].handlerFnName # ops[w][j].handlerFnName

------------------------------------------------------------------------------
(* C6..C10 *)

DigitValue(c) == (CHOOSE i \in 1..Len(DigitChars) : DigitChars[i] = c) - 1

RECURSIVE StrToInt(_)
StrToInt(s) ==
  IF s = <<>> THEN 0
  ELSE StrToInt(SubSeq(s, 1, Len(s) - 1)) * 10 + DigitValue(s[Len(s)])

\* The numeric suffix of a name: what follows its last 'r'.
NumericSuffix(name) ==
  LET k == CHOOSE i \in 1..Len(name) : name[i] = "r" /\ \A j \in (i + 1)..Len(name) : name[j] # "r"
  IN StrToInt(SubSeq(name, k + 1, Len(name)))

ContextAllocs == {a \in 1..Len(allocs) : allocs[a].kind = "Context"}

\* C6: the names given to Context variables across a job are pairwise distinct and their
\* numeric suffixes strictly increase in allocation order, whatever is allocated between.
C6_ContextNamesIncrease ==
  \A a, b \in ContextAllocs :
    a < b => /\ allocs[a].name # allocs[b].name
             /\ NumericSuffix(allocs[a].name) < NumericSuffix(allocs[b].name)

\* Two Context variables were named with a variable of another kind named in between.
C6_Witness ==
  \E a, b \in ContextAllocs : \E m \in 1..Len(allocs) :
    a < m /\ m < b /\ allocs[m].kind # "Context"

\* A step of the first loop at a Listener whose handler name is unset.
AtUnnamedListener == Scanning /\ CurOp.kind = "Listener" /\ CurOp.handlerFnName = NULL

SlotUnassigned == pc = "error" /\ err = ErrListenerSlot

\* C7: a Listener with an unset handler name aborts the pass with the slot-unassigned
\* error exactly when it is no host listener and its slot is null, and a host listener
\* with a null slot is named; the abort changes nothing (the listener's own names
\* included), nothing runs after it, and so in that unit the instructions from the
\* listener on are as handed in and no read was backfilled.
C7_ListenerSlotAbort ==
  /\ [](SlotUnassigned =>
          /\ \A j \in Top.i..Len(ops[Top.unit]) : ops[Top.unit][j] = input.ops[Top.unit][j]
          /\ \A j \in 1..Len(ops[Top.unit]) : ops[Top.unit][j].reads = input.ops[Top.unit][j].reads)
  /\ [][/\ pc # "error"
        /\ SlotUnassigned' => (AtUnnamedListener /\ ~CurOp.hostListener /\ CurOp.slot = NULL)
        /\ AtUnnamedListener =>
             /\ (~CurOp.hostListener /\ CurOp.slot = NULL) =>
                  (SlotUnassigned' /\ ops' = ops /\ fnName' = fnName /\ variables' = variables
                     /\ stack' = stack /\ state' = state)
             /\ CurOp.hostListener =>
                  (pc' = "running" /\ ops'[Top.unit][Top.i].handlerFnName # NULL)]_vars

\* The pass was aborted at a listener without a slot that is followed, in its unit, by
\* another listener with an unset handler name.
C7_Witness ==
  /\ SlotUnassigned
  /\ Top.i < Len(ops[Top.unit])
  /\ ops[Top.unit][Top.i + 1].kind = "Listener"
  /\ ops[Top.unit][Top.i + 1].handlerFnName = NULL

\* C8: after phaseNaming completes without error, every Listener instruction of every
\* processed unit has a non-null handler name.
C8_ListenersNamed ==
  pc = "done" => \A u \in UnitTree : \A i \in ListenersOf(u) : ops[u][i].handlerFnName # NULL

\* A completed run that named a host listener without a slot and a listener of a child view.
C8_Witness ==
  /\ pc = "done"
  /\ \E i \in ListenersOf(job.root) :
       /\ input.ops[job.root][i].handlerFnName = NULL
       /\ ops[job.root][i].hostListener /\ ops[job.root][i].slot = NULL
  /\ \E u \in UnitTree \ {job.root} : \E i \in ListenersOf(u) :
       input.ops[u][i].handlerFnName = NULL

ReplaceAll(s, from, to) == [i \in 1..Len(s) |-> IF s[i] = from THEN to ELSE s[i]]

\* The handler name the listener `op` is to get in a unit called with `baseName` and
\* carrying the function name `unitFnName`, before sanitizing.
ExpectedEventName(op) ==
  IF op.isAnimationListener THEN <<"@">> \o op.name \o <<".">> \o op.animationPhase ELSE op.name

ExpectedHandlerName(op, baseName, unitFnName) ==
  LET animationTag == IF op.isAnimationListener THEN S_animation ELSE <<>>
  IN IF op.hostListener
     THEN baseName \o <<"_">> \o animationTag \o ExpectedEventName(op) \o <<"_">> \o S_HostBindingHandler
     ELSE unitFnName \o <<"_">> \o ReplaceAll(Val(op.tag), "-", "_") \o <<"_">> \o animationTag
            \o ExpectedEventName(op) \o <<"_">> \o IntToStr(Val(op.slot)) \o <<"_">> \o S_listener

\* C9: a Listener with an unset handler name that is named gets the sanitized form of
\* baseName_<animationTag><eventName>_HostBindingHandler if it is a host listener and of
\* unitFnName_<tag, hyphens as underscores>_<animationTag><eventName>_<slot>_listener
\* otherwise, the event name of an animation listener being rewritten to @<name>.<phase>.
C9_HandlerNameFormat ==
  [][(AtUnnamedListener /\ pc' = "running") =>
       /\ ops'[Top.unit][Top.i].name = ExpectedEventName(CurOp)
       /\ ops'[Top.unit][Top.i].handlerFnName =
            Some(sanitizeIdentifier(ExpectedHandlerName(CurOp, Top.baseName, Val(fnName[Top.unit]))))]_vars

S_Comp_Template_my_el_click_3_listener ==
  S_Comp \o <<"_">> \o S_Template \o <<"_","m","y","_","e","l","_">> \o S_click
    \o <<"_","3","_">> \o S_listener

\* The listener of tag my-el, event click and slot 3 in the unit Comp_Template carries
\* the name Comp_Template_my_el_click_3_listener, and a listener of a tag with two hyphens
\* was named in the same unit.
C9_Witness ==
  /\ \E i \in ListenersOf(job.root) :
       /\ input.ops[job.root][i] = ViewListener
       /\ fnName[job.root] = Some(S_Comp \o <<"_">> \o S_Template)
       /\ ops[job.root][i].handlerFnName = Some(S_Comp_Template_my_el_click_3_listener)
  /\ \E i \in ListenersOf(job.root) :
       /\ input.ops[job.root][i].tag = Some(S_a_b_c)
       /\ ops[job.root][i].handlerFnName # NULL

\* The base name a child unit is to be called with.
ExpectedChildBase(parentBase, op, emptyBranch) ==
  IF op.kind = "Template"
  THEN parentBase \o (IF op.functionNameSuffix # <<>> THEN <<"_">> \o op.functionNameSuffix ELSE <<>>)
         \o <<"_">> \o IntToStr(Val(op.slot))
  ELSE IF emptyBranch
  THEN parentBase \o <<"_">> \o op.functionNameSuffix \o S_Empty \o <<"_">> \o IntToStr(Val(op.slot) + 2)
  ELSE parentBase \o <<"_">> \o op.functionNameSuffix \o <<"_">> \o IntToStr(Val(op.slot) + 1)

\* C10: the root is visited with the component name as base, and every child unit with
\* parentBase[_suffix]_s for a Template at slot s, parentBase_suffix_(s+1) for the primary
\* branch of a RepeaterCreate at slot s and parentBase_suffixEmpty_(s+2) for its empty
\* branch; a function name that a step sets is the sanitized base of the visit that
\* starts with the step, followed by the job's suffix.
C10_ChildBaseNames ==
  /\ [](\A k \in 1..Len(stack) :
          /\ k = 1 => stack[k].baseName = job.componentName
          /\ k > 1 =>
               LET parent == stack[k - 1]
                   op == ops[parent.unit][parent.i]
               IN /\ op.kind \in {"Template", "RepeaterCreate"}
                  /\ parent.stage \in {"child", "primary", "empty"}
                  /\ stack[k].unit = IF parent.stage = "empty" THEN Val(op.emptyView) ELSE op.xref
                  /\ stack[k].baseName =
                       ExpectedChildBase(parent.baseName, op, parent.stage = "empty"))
  /\ [][\A u \in Units :
          fnName'[u] # fnName[u] =>
            /\ Len(stack') = Len(stack) + 1
            /\ stack'[Len(stack')].unit = u
            /\ fnName'[u] =
                 Some(sanitizeIdentifier(stack'[Len(stack')].baseName \o <<"_">> \o job.fnSuffix))]_vars

\* The primary branch of a repeater at slot 5 is being visited with a base ending in _6,
\* after its empty branch was named from a base ending in _7.
C10_Witness ==
  /\ Len(stack) = 2
  /\ ops[stack[1].unit][stack[1].i].kind = "RepeaterCreate"
  /\ ops[stack[1].unit][stack[1].i].slot = Some(5)
  /\ stack[1].stage = "primary"
  /\ Top.baseName = S_Comp \o <<"_">> \o S_For \o <<"_","6">>
  /\ fnName[Val(ops[stack[1].unit][stack[1].i].emptyView)] =
       Some(S_Comp \o <<"_">> \o S_For \o S_Empty \o <<"_","7","_">> \o S_Template)

------------------------------------------------------------------------------
(* Style and class property names. *)

S_font_size == <<"f","o","n","t","-","s","i","z","e">>
S_color == <<"c","o","l","o","r">>
S_active == <<"a","c","t","i","v","e">>

\* The part of `name` before its first "!important", the whole name if it has none.
RECURSIVE BeforeImportant(_)
BeforeImportant(name) ==
  IF name = <<>> \/ StartsWith(name, S_important) THEN <<>>
  ELSE <<Head(name)>> \o BeforeImportant(Tail(name))

HasImportant(name) == \E i \in 1..Len(name) : StartsWith(SubSeq(name, i, Len(name)), S_important)

IsCssVariable(name) == Len(name) >= 2 /\ name[1] = "-" /\ name[2] = "-"

ExpectedStyleName(name, compatibility) ==
  LET kebab == IF IsCssVariable(name) THEN name ELSE hyphenate(name)
  IN IF compatibility THEN BeforeImportant(kebab) ELSE kebab

ExpectedClassName(name, compatibility) ==
  IF compatibility THEN BeforeImportant(name) ELSE name

AtStyleOrClassProp == Scanning /\ CurOp.kind \in {"StyleProp", "ClassProp"}

\* C11: the scan of a StyleProp instruction leaves its name hyphenated to kebab-case,
\* unless the name begins with "--", and in compatibility mode then cut at the first
\* "!important"; the scan of a ClassProp instruction cuts the name at the first
\* "!important" in compatibility mode and leaves it as it is otherwise; with
\* compatibility mode off a name that has an "!important" keeps one.  fontSize becomes
\* font-size, --my-var stays, and color!important becomes color in compatibility mode.
\* Nothing else of the instruction changes and the scan goes on.
C11_StyleAndClassNames ==
  [][AtStyleOrClassProp =>
       LET u == Top.unit
           i == Top.i
           old == ops[u][i]
           new == ops'[u][i]
       IN /\ pc' = "running"
          /\ new = [old EXCEPT !.name = new.name]
          /\ old.kind = "StyleProp" => new.name = ExpectedStyleName(old.name, job.compatibility)
          /\ old.kind = "ClassProp" => new.name = ExpectedClassName(old.name, job.compatibility)
          /\ (~job.compatibility /\ HasImportant(old.name)) => HasImportant(new.name)
          /\ (old.kind = "StyleProp" /\ old.name = S_fontSize) => new.name = S_font_size
          /\ (old.kind = "StyleProp" /\ old.name = S_my_var) => new.name = S_my_var
          /\ (old.kind = "StyleProp" /\ old.name = S_colorImportant /\ job.compatibility)
               => new.name = S_color
          /\ (old.kind = "ClassProp" /\ old.name = S_activeImportant /\ job.compatibility)
               => new.name = S_active]_vars

\* In compatibility mode a style name with two "!important" markers and a class name
\* with one have been scanned in the first run, and each was cut at its first marker.
C11_Witness ==
  /\ job.compatibility
  /\ runs = 1
  /\ \E i, j \in 1..Len(ops[job.root]) :
       /\ input.ops[job.root][i] = StylePropOp(S_bgColorImportantX)
       /\ ops[job.root][i].name = <<"b","g","-","c","o","l","o","r">>
       /\ input.ops[job.root][j] = ClassPropOp(S_activeImportant)
       /\ ops[job.root][j].name = S_active

------------------------------------------------------------------------------
(* The backfill of variable reads. *)

Backfilling == pc = "running" /\ Top.phase = "backfill" /\ Top.i <= Len(ops[Top.unit])

\* The xrefs the Variable instructions of unit u declare.
DeclaredIn(u) == {ops[u][i].xref : i \in VariableOpsOf(u)}

\* The name of the variable a Variable instruction of unit u declares as xref x.
DeclaredName(u, x) ==
  variables[ops[u][CHOOSE i \in VariableOpsOf(u) : ops[u][i].xref = x].variable].name

\* The positions in `reads` of the unnamed reads of an xref unit u does not declare.
Unresolvable(u, reads) ==
  {k \in 1..Len(reads) : reads[k].name = NULL /\ reads[k].xref \notin DeclaredIn(u)}

\* C12: the backfill of an instruction resolves its reads against the Variable
\* instructions of the same unit only.  If an unnamed read's xref is declared by none of
\* them, the pass aborts with 'not yet named' and that read, and every read after it,
\* is left as it was; otherwise the backfill goes on.  A read that carries a name is
\* left untouched and never makes the pass abort, even if its xref is not declared in
\* the unit.  The unnamed reads resolved receive the name of the unit's own variable.
C12_BackfillOwnTableOnly ==
  [][Backfilling =>
       LET u == Top.unit
           old == ops[u][Top.i].reads
           new == ops'[u][Top.i].reads
           bad == Unresolvable(u, old)
           first == IF bad = {} THEN Len(old) + 1 ELSE CHOOSE k \in bad : \A j \in bad : k <= j
       IN /\ Len(new) = Len(old)
          /\ IF bad # {} THEN pc' = "error" /\ err' = ErrNotNamed ELSE pc' = "running"
          /\ \A k \in 1..Len(old) :
               /\ new[k].xref = old[k].xref
               /\ old[k].name # NULL => new[k] = old[k]
               /\ k >= first => new[k] = old[k]
               /\ (old[k].name = NULL /\ k < first) =>
                     new[k].name # NULL /\ new[k].name = DeclaredName(u, old[k].xref)]_vars

\* The pass has aborted with 'not yet named' in the root unit, at a read whose xref is
\* declared only in the child unit the root's Template instruction references, by a
\* Variable instruction that was named; the read stays unnamed, while the read before
\* it in the same instruction was resolved.
C12_Witness ==
  /\ pc = "error"
  /\ err = ErrNotNamed
  /\ Top.unit = job.root
  /\ Top.phase = "backfill"
  /\ \E k \in 1..Len(CurOp.reads), c \in Children(job.root) :
       /\ k > 1
       /\ CurOp.reads[k].name = NULL
       /\ CurOp.reads[k].xref \notin DeclaredIn(job.root)
       /\ CurOp.reads[k].xref \in DeclaredIn(c)
       /\ DeclaredName(c, CurOp.reads[k].xref) # NULL
       /\ CurOp.reads[k - 1].name # NULL
       /\ input.ops[job.root][Top.i].reads[k - 1].name = NULL

------------------------------------------------------------------------------
(* Child-creating instructions that are rejected. *)

\* The units a child-creating instruction references: the primary one and, for a
\* RepeaterCreate that has one, the empty one.
ChildrenOfOp(op) ==
  {op.xref} \cup (IF op.kind = "RepeaterCreate" /\ op.emptyView # NULL
                  THEN {Val(op.emptyView)} ELSE {})

\* The child-creating instructions (unit, instruction) of the job that reference unit c.
ReferencesTo(c) ==
  {<<u, i>> \in UNION {{<<u, i>> : i \in 1..Len(ops[u])} : u \in Units} :
     ops[u][i].kind \in {"Template", "RepeaterCreate"} /\ c \in ChildrenOfOp(ops[u][i])}

\* The variables that only Variable instructions of unit c declare.
OwnVariables(c) ==
  {v \in DOMAIN variables :
     /\ \E i \in VariableOpsOf(c) : ops[c][i].variable = v
     /\ \A u \in Units \ {c} : \A i \in VariableOpsOf(u) : ops[u][i].variable # v}

\* The scan stands at a Template or RepeaterCreate instruction it has not acted on yet.
AtViewOp == Scanning /\ CurOp.kind \in {"Template", "RepeaterCreate"} /\ Top.stage = "op"

\* The pass was aborted by a Template or RepeaterCreate instruction.
ViewOpRejected == pc = "error" /\ err \in {ErrNotView, ErrViewSlot}

\* C13: a Template or RepeaterCreate instruction that stands in a unit that is not a
\* view, or that has a null slot, aborts the pass in the step that scans it, and that
\* step changes no function name, no instruction, no variable and not the counter, and
\* starts no visit; nothing runs after it.  So a child unit (primary or empty) that only
\* this instruction references is as it was handed in: its function name, its
\* listeners and reads, and the variables only it declares.
C13_RejectedBeforeChildren ==
  /\ [](ViewOpRejected =>
          /\ Top.phase = "scan"
          /\ CurOp.kind \in {"Template", "RepeaterCreate"}
          /\ ~job.isView[Top.unit] \/ CurOp.slot = NULL
          /\ \A c \in ChildrenOfOp(CurOp) :
               ReferencesTo(c) = {<<Top.unit, Top.i>>} =>
                 /\ fnName[c] = input.fnName[c]
                 /\ ops[c] = input.ops[c]
                 /\ \A v \in OwnVariables(c) : variables[v] = input.variables[v])
  /\ [][/\ pc # "error"
        /\ ViewOpRejected' => (AtViewOp /\ (~job.isView[Top.unit] \/ CurOp.slot = NULL))
        /\ (AtViewOp /\ (~job.isView[Top.unit] \/ CurOp.slot = NULL)) =>
             /\ pc' = "error"
             /\ err' = IF ~job.isView[Top.unit] THEN ErrNotView ELSE ErrViewSlot
             /\ fnName' = fnName /\ ops' = ops /\ variables' = variables
             /\ state' = state /\ stack' = stack /\ allocs' = allocs]_vars

\* The pass was aborted by a RepeaterCreate instruction with a null slot and an empty
\* view, after an earlier instruction's child had advanced the counter: both of its
\* child units, with their listener and Variable instructions, are unnamed, and the
\* counter stands where the earlier child left it.
C13_Witness ==
  /\ ViewOpRejected
  /\ err = ErrViewSlot
  /\ CurOp.kind = "RepeaterCreate"
  /\ CurOp.emptyView # NULL
  /\ state.index > 0
  /\ state.index = Len(allocs)
  /\ \A c \in ChildrenOfOp(CurOp) :
       /\ fnName[c] = NULL
       /\ ReferencesTo(c) = {<<Top.unit, Top.i>>}
  /\ \E c \in ChildrenOfOp(CurOp) : \E i \in ListenersOf(c) : ops[c][i].handlerFnName = NULL
  /\ \E c \in ChildrenOfOp(CurOp) : \E v \in OwnVariables(c) : variables[v].name = NULL

------------------------------------------------------------------------------
(* The naming counter. *)

AtVariable == Scanning /\ CurOp.kind = "Variable"

\* C14: the scan of a Variable instruction whose variable has no name yet gives it, at
\* counter value c, the name ctx_r<c> if it is a Context variable, <identifier>_r<c+1>
\* if it is an Identifier variable and _r<c+1> if it is of any other kind, and leaves
\* the counter at c+1 in all three cases; a variable that has a name keeps it and the
\* counter is not advanced.  Either way the name is what the unit's table records for
\* the instruction's xref.
C14_VariableNameAllocation ==
  [][AtVariable =>
       LET v == CurOp.variable
           old == variables[v]
           new == variables'[v]
           c == state.index
       IN /\ pc' = "running"
          /\ stack'[Len(stack)].varNames[CurOp.xref] = new.name
          /\ \A w \in DOMAIN variables : w # v => variables'[w] = variables[w]
          /\ new.kind = old.kind /\ new.identifier = old.identifier
          /\ old.name # NULL => (new.name = old.name /\ state'.index = c /\ allocs' = allocs)
          /\ old.name = NULL =>
               /\ state'.index = c + 1
               /\ Len(allocs') = Len(allocs) + 1
               /\ old.kind = "Context" =>
                    new.name = Some(<<"c","t","x","_","r">> \o IntToStr(c))
               /\ old.kind = "Identifier" =>
                    new.name = Some(old.identifier \o <<"_","r">> \o IntToStr(c + 1))
               /\ old.kind \notin {"Context", "Identifier"} =>
                    new.name = Some(<<"_","r">> \o IntToStr(c + 1))]_vars

\* A Context, an Identifier and a SavedView variable were named, the Identifier one
\* item_r3 at counter value 2, and a later Variable instruction found its variable
\* already named: the counter stands at 3 with the scan past that instruction.
C14_Witness ==
  /\ {allocs[a].kind : a \in 1..Len(allocs)} = {"Context", "Identifier", "SavedView"}
  /\ \E a \in 1..Len(allocs) :
       /\ allocs[a].kind = "Identifier"
       /\ allocs[a].index = 2
       /\ allocs[a].name = S_item \o <<"_","r","3">>
  /\ state.index = 3
  /\ pc = "running"
  /\ Top.phase = "scan"
  /\ \E i \in VariableOpsOf(Top.unit) :
       /\ i < Top.i
       /\ \A a \in 1..Len(allocs) :
            allocs[a].variable = ops[Top.unit][i].variable => allocs[a].unit # Top.unit

\* The instructions of unit u that reference child units.
ViewOpsOf(u) == {i \in 1..Len(ops[u]) : ops[u][i].kind \in {"Template", "RepeaterCreate"}}

\* The units below instruction i of unit u: the units it references and theirs.
SubtreeOf(u, i) == ReachFrom(ChildrenOfOp(ops[u][i]), Cardinality(Units))

\* The Variable instruction, in the unit of allocation a, whose variable was named.
AllocPos(a) ==
  CHOOSE i \in VariableOpsOf(allocs[a].unit) : ops[allocs[a].unit][i].variable = allocs[a].variable

\* C15: one counter is threaded through the whole traversal of a run.  It is 0 when
\* the run starts; a step never decreases it, only the scan of a Variable instruction
\* changes it, and entering or leaving a child unit leaves it as it is.  So the n-th
\* name of the job is allocated at counter value n-1, below the counter's value for
\* the rest of the run, whatever units the allocations stand in, and the numbering is depth-first in-order: the names allocated below a
\* child-creating instruction come after those of the Variable instructions that
\* precede it in its unit and before those of the ones that follow it.
C15_CounterThreaded ==
  /\ [](/\ \A a \in 1..Len(allocs) : allocs[a].index = a - 1
        /\ \A a \in 1..Len(allocs) : allocs[a].run = runs => allocs[a].index < state.index
        /\ \A a, c \in 1..Len(allocs) : \A j \in ViewOpsOf(allocs[a].unit) :
             allocs[c].unit \in SubtreeOf(allocs[a].unit, j) =>
               /\ AllocPos(a) < j => allocs[a].index < allocs[c].index
               /\ AllocPos(a) > j => allocs[c].index < allocs[a].index)
  /\ [][/\ (pc # "running" /\ pc' = "running") => state'.index = 0
        /\ pc = "running" =>
             /\ state'.index >= state.index
             /\ state'.index # state.index => (AtVariable /\ state'.index = state.index + 1)
             /\ Len(stack') # Len(stack) => state'.index = state.index]_vars

\* A run has completed in which the root named a variable, then a child unit named
\* one, then the root named another: the three were allocated at 0, 1 and 2.
C15_Witness ==
  /\ pc = "done"
  /\ Len(allocs) = 3
  /\ allocs[1].unit = job.root
  /\ allocs[2].unit \in Children(job.root)
  /\ allocs[3].unit = job.root
  /\ state.index = 3

------------------------------------------------------------------------------
(* The order of the visits. *)

\* Unit u and the units below it.
UnitsBelow(u) == ReachFrom({u}, Cardinality(Units))

\* In this run both loops over unit u have finished, and its names are all set.
Processed(u) ==
  /\ visits[u].scan >= 1
  /\ visits[u].backfill >= 1
  /\ fnName[u] # NULL
  /\ \A i \in VariableOpsOf(u) : variables[ops[u][i].variable].name # NULL
  /\ \A i \in ListenersOf(u) : ops[u][i].handlerFnName # NULL
  /\ \A r \in ReadsOf({u}) : ReadAt(r).name # NULL

\* In this run no loop over unit u has finished and no visit of it is active.
NotEntered(u) ==
  /\ visits[u] = [scan |-> 0, backfill |-> 0]
  /\ \A k \in 1..Len(stack) : stack[k].unit # u

\* The active calls that stand at a RepeaterCreate instruction with an empty view.
AtRepeaterWithEmpty ==
  {k \in 1..Len(stack) :
     /\ stack[k].phase = "scan"
     /\ stack[k].i <= Len(ops[stack[k].unit])
     /\ ops[stack[k].unit][stack[k].i].kind = "RepeaterCreate"
     /\ ops[stack[k].unit][stack[k].i].emptyView # NULL}

\* The RepeaterCreate instructions (unit, instruction) of the units whose visit has
\* finished in this run.
RepeatersDone ==
  {<<u, i>> \in UNION {{<<u, i>> : i \in 1..Len(ops[u])} : u \in Units} :
     visits[u].backfill >= 1 /\ ops[u][i].kind = "RepeaterCreate"}

\* C16: at a RepeaterCreate instruction with an empty view, the empty-view unit is
\* processed completely (both loops, all its names set) before the primary unit is
\* entered: while the empty view is being visited the primary unit, if nothing else
\* references it, has not been entered, and once the primary unit is called the visit
\* of the empty one is over.  So every counter value consumed below the empty view is
\* smaller than every one consumed below the primary view.  The primary unit of a
\* RepeaterCreate instruction is processed whether or not there is an empty view.
C16_EmptyBeforePrimary ==
  /\ \A k \in AtRepeaterWithEmpty :
       LET op == ops[stack[k].unit][stack[k].i]
           empty == Val(op.emptyView)
       IN /\ stack[k].stage = "empty" =>
               /\ k < Len(stack) /\ stack[k + 1].unit = empty
               /\ ReferencesTo(op.xref) = {<<stack[k].unit, stack[k].i>>} => NotEntered(op.xref)
          /\ stack[k].stage \in {"afterEmpty", "primary"} =>
               /\ Processed(empty)
               /\ \A j \in 1..Len(stack) : stack[j].unit # empty
          /\ stack[k].stage = "primary" => (k < Len(stack) /\ stack[k + 1].unit = op.xref)
  /\ \A u \in Units : \A i \in 1..Len(ops[u]) :
       (ops[u][i].kind = "RepeaterCreate" /\ ops[u][i].emptyView # NULL) =>
          \A a, c \in 1..Len(allocs) :
            (/\ allocs[a].unit \in UnitsBelow(Val(ops[u][i].emptyView))
             /\ allocs[c].unit \in UnitsBelow(ops[u][i].xref)) => allocs[a].index < allocs[c].index
  /\ \A r \in RepeatersDone : Processed(ops[r[1]][r[2]].xref)

\* The primary unit of a RepeaterCreate instruction with an empty view is being
\* backfilled; a name was allocated in the empty-view unit and then one in the primary
\* unit, at a larger counter value.
C16_Witness ==
  /\ pc = "running"
  /\ Len(stack) = 2
  /\ 1 \in AtRepeaterWithEmpty
  /\ stack[1].stage = "primary"
  /\ Top.phase = "backfill"
  /\ \E a, c \in 1..Len(allocs) :
       /\ allocs[a].unit = Val(ops[stack[1].unit][stack[1].i].emptyView)
       /\ allocs[c].unit = Top.unit
       /\ allocs[a].index < allocs[c].index

\* The units in which the step changes a variable read.
UnitsBackfilledByStep ==
  {u \in Units : \E i \in 1..Len(ops[u]) : ops'[u][i].reads # ops[u][i].reads}

\* Unit u is ready for its second loop: its first loop has finished in this run, its
\* Variable instructions are all named, and every unit below it is processed.
ReadyForBackfill(u) ==
  /\ visits[u].scan >= 1
  /\ \A i \in VariableOpsOf(u) : variables[ops[u][i].variable].name # NULL
  /\ \A d \in UnitsBelow(u) \ {u} : Processed(d)

\* C17: the second loop over a unit starts only after its first loop has finished, the
\* complete processing of every child unit included.  A call that is in its second
\* loop is the innermost one and its unit is ready; a step that resolves a read of a
\* unit is a step of that unit's second loop, taken when all Variable instructions of
\* the unit are named and the reads of every unit below it are resolved.
C17_BackfillAfterScan ==
  /\ [](\A k \in 1..Len(stack) :
          /\ k < Len(stack) => stack[k].phase = "scan"
          /\ stack[k].phase = "backfill" => ReadyForBackfill(stack[k].unit))
  /\ [][\A u \in UnitsBackfilledByStep :
          /\ pc = "running"
          /\ Top.unit = u
          /\ Top.phase = "backfill"
          /\ ReadyForBackfill(u)]_vars

\* A read of the root was resolved after the root's Template child, which reads a
\* variable before the instruction that declares it, was processed completely.
C17_Witness ==
  /\ runs = 1
  /\ \E r \in ReadsOf({job.root}) :
       /\ ReadAt(r).name # NULL
       /\ input.ops[r[1]][r[2]].reads[r[3]].name = NULL
  /\ \E c \in Children(job.root) :
       /\ Processed(c)
       /\ \E r \in ReadsOf({c}) : \E i \in VariableOpsOf(c) :
            /\ r[2] < i
            /\ ReadAt(r).xref = ops[c][i].xref
            /\ input.ops[r[1]][r[2]].reads[r[3]].name = NULL

------------------------------------------------------------------------------
(* Instructions and jobs that were named before. *)

AtNamedListener == Scanning /\ CurOp.kind = "Listener" /\ CurOp.handlerFnName # NULL

\* C18: the scan skips a Listener instruction whose handler name is set: the step
\* changes no instruction (the handler name and the event name stay, an animation
\* listener's event name is not rewritten again), no function name, no variable and not
\* the counter, raises no error, although the listener may be no host listener and have
\* a null slot, and the scan goes on with the next instruction.
C18_NamedListenerSkipped ==
  [][AtNamedListener =>
       /\ ops' = ops
       /\ pc' = "running"
       /\ err' = err
       /\ fnName' = fnName
       /\ variables' = variables
       /\ state' = state
       /\ stack' = SetTop([Top EXCEPT !.i = @ + 1])]_vars

\* A run completed over an animation listener that was handed in with a handler name,
\* is no host listener and has a null slot: it is as it was handed in.
C18_Witness ==
  /\ pc = "done"
  /\ \E i \in ListenersOf(job.root) :
       /\ input.ops[job.root][i].handlerFnName = Some(S_h)
       /\ ~input.ops[job.root][i].hostListener
       /\ input.ops[job.root][i].slot = NULL
       /\ input.ops[job.root][i].isAnimationListener
       /\ ops[job.root][i] = input.ops[job.root][i]

\* C19: the pass is idempotent.  A run of phaseNaming on a job that an earlier run
\* named successfully changes no name-bearing field (function names, listener handler
\* and event names, Property and HostProperty names, StyleProp and ClassProp names,
\* variable names, read names), allocates no variable name and raises no error.
C19_SecondRunChangesNothing ==
  [][runs' >= 2 =>
       /\ ops' = ops
       /\ fnName' = fnName
       /\ variables' = variables
       /\ allocs' = allocs
       /\ pc' # "error"]_vars

------------------------------------------------------------------------------
(* Termination. *)

\* The child-creating instructions (unit, instruction) of the unit tree.
ViewOpPlaces == UNION {{<<u, i>> : i \in ViewOpsOf(u)} : u \in UnitTree}

\* The places (instruction, branch) of the unit tree that reference unit c.
ReferencePlaces(c) ==
  {<<p, "primary">> : p \in {q \in ViewOpPlaces : ops[q[1]][q[2]].xref = c}}
  \cup {<<p, "empty">> : p \in {q \in ViewOpPlaces :
                                  /\ ops[q[1]][q[2]].kind = "RepeaterCreate"
                                  /\ ops[q[1]][q[2]].emptyView = Some(c)}}

\* The job's units form a finite, cycle-free tree: no unit is below itself, nothing
\* references the root, and every other unit of the tree is referenced at one place.
IsTreeJob ==
  /\ \A u \in UnitTree : u \notin ReachFrom(Children(u), Cardinality(Units))
  /\ ReferencePlaces(job.root) = {}
  /\ \A u \in UnitTree \ {job.root} : Cardinality(ReferencePlaces(u)) = 1

\* The number of steps a visit of unit u takes when nothing aborts it: one for each
\* instruction in each loop, one at the end of each loop, and for a child-creating
\* instruction the visits of its child units, with one more step to call the primary
\* view after an empty view.
RECURSIVE StepsOfVisit(_), ScanStepsFrom(_, _)
StepsOfViews(op) ==
  IF op.kind = "Template" THEN StepsOfVisit(op.xref)
  ELSE IF op.kind = "RepeaterCreate"
  THEN StepsOfVisit(op.xref) +
         (IF op.emptyView # NULL THEN 1 + StepsOfVisit(Val(op.emptyView)) ELSE 0)
  ELSE 0

ScanStepsFrom(u, i) ==
  IF i > Len(ops[u]) THEN 0 ELSE 1 + StepsOfViews(ops[u][i]) + ScanStepsFrom(u, i + 1)

StepsOfVisit(u) == ScanStepsFrom(u, 1) + 1 + Len(ops[u]) + 1

\* The steps an active call has left, the calls it has made and not yet seen return
\* left out.
StepsOfFrame(f) ==
  IF f.phase = "backfill" THEN (Len(ops[f.unit]) - f.i + 1) + 1
  ELSE (IF f.i > Len(ops[f.unit]) THEN 0
        ELSE IF f.stage = "op" THEN 1 + StepsOfViews(ops[f.unit][f.i])
        ELSE IF f.stage \in {"empty", "afterEmpty"} THEN 1 + StepsOfVisit(ops[f.unit][f.i].xref)
        ELSE 0)
       + ScanStepsFrom(f.unit, f.i + 1) + 1 + Len(ops[f.unit]) + 1

RECURSIVE StepsOfFrames(_)
StepsOfFrames(stk) ==
  IF stk = <<>> THEN 0 ELSE StepsOfFrame(Head(stk)) + StepsOfFrames(Tail(stk))

\* The steps the run has left if nothing aborts it.
StepsLeft == StepsOfFrames(stack)

\* C20: a run of phaseNaming terminates, completed or aborted by an error: while it
\* runs it has a step to take, and every step either aborts it or brings it one step
\* closer to completion, which it reaches when no step is left; a run starts with the
\* steps of a visit of the root left.  When a run has completed on a job whose units
\* form a cycle-free tree, each loop (the scan, the backfill) has been performed
\* exactly once over every unit of the tree, and over no other unit.
C20_Terminates ==
  /\ [](pc = "running" => (StepsLeft > 0 /\ ENABLED Next))
  /\ []((pc = "done" /\ IsTreeJob) =>
          \A u \in Units :
            visits[u] = IF u \in UnitTree THEN [scan |-> 1, backfill |-> 1]
                        ELSE [scan |-> 0, backfill |-> 0])
  /\ [][/\ (pc # "running" /\ pc' = "running") => StepsLeft' = StepsOfVisit(job.root)
        /\ pc = "running" =>
             \/ pc' = "error"
             \/ /\ StepsLeft' = StepsLeft - 1
                /\ pc' = IF StepsLeft' = 0 THEN "done" ELSE "running"]_vars

\* A run has completed on a tree of four units three levels deep, with a unit outside
\* the tree left alone.
C20_Witness ==
  /\ pc = "done"
  /\ IsTreeJob
  /\ Cardinality(UnitTree) >= 4
  /\ \E u \in Children(job.root) : Children(u) # {}
  /\ UnitTree # Units
  /\ \A u \in UnitTree : visits[u] = [scan |-> 1, backfill |-> 1]

====
